---- MODULE Spec2Model ----
(***************************************************************************)
(* The CRF layer of BiLSTM_CRF (src/model.py): the transition parameter    *)
(* written by __init__, and the three entry points forward_alg,            *)
(* score_sentences and viterbi_decode, each called with tensors the caller *)
(* owns.  Tensors are functions over 0..n-1 (the code's indices); a 2-D    *)
(* tensor is a function of rows.  A call is one step: it records the       *)
(* arguments as passed, the caller's tensors after the call, the exception *)
(* raised (if any) and the value returned.                                 *)
(***************************************************************************)
EXTENDS Integers, Sequences, FiniteSets, TLC

\* ------------------------------------------------------------- bounds
\* len(tag2idx): START, STOP and NTag - 2 real tags
NTag == 3
\* longest sentence (rows of feats) a caller passes
MaxLen == 2

\* ---------------------------------------------------- program constant
\* the score __init__ writes to forbid a transition
NEG == -10000

Tags == 0..(NTag - 1)

\* ----------------------------------------------------------- tensors
Size(v) == Cardinality(DOMAIN v)

Empty == [k \in {} |-> 0]

\* torch.LongTensor([x])
Vec1(x) == [k \in {0} |-> x]

\* torch.LongTensor(range(n))
Range0(n) == [k \in 0..(n - 1) |-> k]

\* torch.cat([x, y]) of two 1-D tensors: a new tensor
Cat(x, y) ==
  [k \in 0..(Size(x) + Size(y) - 1) |->
     IF k < Size(x) THEN x[k] ELSE y[k - Size(x)]]

RECURSIVE SumTo(_, _)
SumTo(v, n) == IF n = 0 THEN 0 ELSE v[n - 1] + SumTo(v, n - 1)

\* torch.sum of a 1-D tensor (0 for an empty one)
Sum(v) == SumTo(v, Size(v))

\* an index check that takes every negative index for out of range
InBoundsNonNegative(i, n) == 0 <= i /\ i < n

\* An index tensor's entry i on a dimension of size n: torch accepts
\* -n <= i < n and raises IndexError otherwise
InBounds(i, n) == -n <= i /\ i < n

\* ... and reads a negative index from the end
WrapIndex(i, n) == IF i < 0 THEN i + n ELSE i

\* M[rows, cols] with two index tensors of one length (advanced indexing):
\* whether some index is out of range for M's shape (n0, n1)
GatherRaises(n0, n1, rows, cols) ==
  \E k \in DOMAIN rows : ~InBounds(rows[k], n0) \/ ~InBounds(cols[k], n1)

\* M[rows, cols]: a new 1-D tensor, entry k is M[rows[k]][cols[k]]
Gather(M, n0, n1, rows, cols) ==
  [k \in DOMAIN rows |-> M[WrapIndex(rows[k], n0)][WrapIndex(cols[k], n1)]]

\* -------------------------------------------------------- constructor
\* The names __init__ binds on the object (in any branch it takes).
Attributes ==
  {"device", "START_TAG", "STOP_TAG", "word2idx", "char2idx", "tag2idx",
   "n_word", "n_char", "n_tag", "max_len_word", "idx_pad_char",
   "idx_pad_word", "dim_emb_char", "dim_emb_word", "dim_out_char",
   "dim_out_word", "mode_char", "mode_word", "n_cnn_layer",
   "embedding_char", "embedding_word", "lstm_char", "conv_char",
   "dropout1", "lstm_word", "conv_word", "dropout2", "hidden2tag",
   "transitions"}

\* The tag2idx dictionaries a caller constructs the model with: where START
\* and STOP sit among the n_tag indices.
Vocabularies ==
  {[START |-> 0, STOP |-> NTag - 1], [START |-> NTag - 2, STOP |-> NTag - 1]}

RealTags(t2i) == Tags \ {t2i.START, t2i.STOP}

\* torch.zeros(n_tag, n_tag); then row START := -10000; then column
\* STOP := -10000
InitTransitions(t2i) ==
  LET zeros == [r \in Tags |-> [c \in Tags |-> 0]]
      rowed == [zeros EXCEPT ![t2i.START] = [c \in Tags |-> NEG]]
  IN  [r \in Tags |-> [rowed[r] EXCEPT ![t2i.STOP] = NEG]]

\* ----------------------------------------------------- score_sentences
\* The frame of a call: the caller's tensors, the locals, the outcome.
Frame(A, E, tg) ==
  [transitions |-> A, feats |-> E, tags |-> tg,
   r |-> Empty, pad_start_tags |-> Empty, pad_stop_tags |-> Empty,
   raised |-> "none", score |-> 0]

\* r = torch.LongTensor(range(feats.size()[0]))
Stmt279(fr) == [fr EXCEPT !.r = Range0(Size(fr.feats))]

\* pad_start_tags = torch.cat([torch.LongTensor([START]), tags])
Stmt280(t2i, fr) ==
  [fr EXCEPT !.pad_start_tags = Cat(Vec1(t2i.START), fr.tags)]

\* the slip of appending STOP to the caller's tags in place
Stmt281InPlace(t2i, fr) ==
  [fr EXCEPT !.tags = Cat(fr.tags, Vec1(t2i.STOP)),
             !.pad_stop_tags = Cat(fr.tags, Vec1(t2i.STOP))]

\* pad_stop_tags = torch.cat([tags, torch.LongTensor([STOP])])
Stmt281(t2i, fr) ==
  [fr EXCEPT !.pad_stop_tags = Cat(fr.tags, Vec1(t2i.STOP))]

\* the transition gather read as transitions[from, to]
TransGatherSwapped(fr) ==
  Gather(fr.transitions, NTag, NTag, fr.pad_start_tags, fr.pad_stop_tags)

\* self.transitions[pad_stop_tags, pad_start_tags]
TransGather(fr) ==
  Gather(fr.transitions, NTag, NTag, fr.pad_stop_tags, fr.pad_start_tags)

\* feats[r, tags]
EmitGather(fr) == Gather(fr.feats, Size(fr.feats), NTag, fr.r, fr.tags)

\* score = torch.sum(transitions[pad_stop_tags, pad_start_tags])
\*         + torch.sum(feats[r, tags])
Stmt283(fr) ==
  IF \/ GatherRaises(NTag, NTag, fr.pad_stop_tags, fr.pad_start_tags)
     \/ GatherRaises(Size(fr.feats), NTag, fr.r, fr.tags)
  THEN [fr EXCEPT !.raised = "IndexError"]
  ELSE [fr EXCEPT !.score = Sum(TransGather(fr)) + Sum(EmitGather(fr))]

score_sentences(t2i, A, E, tg) ==
  Stmt283(Stmt281(t2i, Stmt280(t2i, Stmt279(Frame(A, E, tg)))))

\* ------------------------------------------ forward_alg, viterbi_decode
\* self.<name> on an nn.Module: a name __init__ never bound raises
\* AttributeError (nn.Module.__getattr__)
Unbound(name) == name \notin Attributes

Raise(fr, exc) == [fr EXCEPT !.raised = exc]

\* init_alphas = torch.Tensor(1, self.size_tag).fill_(-10000.): the
\* argument self.size_tag is evaluated first, and __init__ binds n_tag,
\* never size_tag; nothing of the body after it runs
forward_alg(A, E) == Raise(Frame(A, E, Empty), "AttributeError")

\* backpointers = []; init_vvars = torch.Tensor(1, self.tagset_size)...:
\* __init__ never binds tagset_size (nor tag_to_ix, use_gpu); nothing of
\* the body after it runs
viterbi_decode(A, E) == Raise(Frame(A, E, Empty), "AttributeError")

\* ------------------------------------------------ the recursions' reads
\* v.view(1, -1): a (1, n) tensor
Row1(v) == [r \in {0} |-> v]

\* v.view(-1, 1): an (n, 1) tensor
ViewCol(v) == [r \in DOMAIN v |-> [c \in {0} |-> v[r]]]

Rows(X) == Size(X)
Cols(X) == Size(X[0])
Larger(a, b) == IF a >= b THEN a ELSE b

\* X + Y of two 2-D tensors: a dimension of size 1 is broadcast
BAdd(X, Y) ==
  [r \in 0..(Larger(Rows(X), Rows(Y)) - 1) |->
     [c \in 0..(Larger(Cols(X), Cols(Y)) - 1) |->
        X[IF Rows(X) = 1 THEN 0 ELSE r][IF Cols(X) = 1 THEN 0 ELSE c]
        + Y[IF Rows(Y) = 1 THEN 0 ELSE r][IF Cols(Y) = 1 THEN 0 ELSE c]]]

\* X.expand(n, m) of a (1, m) tensor
Expand(X, n, m) == [r \in 0..(n - 1) |-> [c \in 0..(m - 1) |-> X[0][c]]]

Transpose(X) == [r \in 0..(Cols(X) - 1) |-> [c \in 0..(Rows(X) - 1) |-> X[c][r]]]

\* the forward cell with the matrix read as transitions[from][to]
TagVarSwapped(forward_var, A, feat) ==
  BAdd(BAdd(Row1(forward_var), Transpose(A)), ViewCol(feat))

\* emit_score = feat.view(-1, 1);
\* tag_var = forward_var + self.transitions + emit_score, forward_var (1, n)
TagVar(forward_var, A, feat) ==
  BAdd(BAdd(Row1(forward_var), A), ViewCol(feat))

RECURSIVE MaxTo(_, _)
MaxTo(v, n) == IF n = 0 THEN v[0] ELSE Larger(v[n], MaxTo(v, n - 1))

\* max_tag_var, _ = torch.max(tag_var, dim=1): the largest of each row
MaxDim1(X) == [r \in DOMAIN X |-> MaxTo(X[r], Cols(X) - 1)]

\* terminal_var = (forward_var + self.transitions[STOP]).view(1, -1)
ForwardTerminalVar(t2i, forward_var, A) ==
  BAdd(Row1(forward_var), Row1(A[t2i.STOP]))

\* next_tag_var = forward_var.view(1, -1).expand(n, n) + self.transitions
NextTagVar(forward_var, A) ==
  BAdd(Expand(Row1(forward_var), NTag, NTag), A)

\* terminal_var = forward_var + self.transitions[STOP], both 1-D
ViterbiTerminalVar(t2i, forward_var, A) ==
  [c \in DOMAIN forward_var |-> forward_var[c] + A[t2i.STOP][c]]

\* ------------------------------------------------------------ inputs
\* emission scores: a row scores one tag above the others
FeatVals == {1, 2}
FeatRows == {[i \in Tags |-> IF i = k THEN v ELSE 0] : k \in Tags, v \in FeatVals}

\* feats: len(sentence) x n_tag
Feats == UNION {[0..(L - 1) -> FeatRows] : L \in 0..MaxLen}

\* tag ids a caller may pass: the n_tag valid ones, and ids on either side
TagIds == Tags \cup {-(NTag + 1), -1, NTag}

\* tags: a list of ints, length is len(sentence)
GoldSeqs(L) == [0..(L - 1) -> TagIds]

\* a transition parameter after training: START -> o and o -> STOP
\* favoured for a real tag o, the forbidden entries kept
Trained(t2i, o) ==
  [InitTransitions(t2i) EXCEPT ![o][t2i.START] = 5, ![t2i.STOP][o] = 5]

NoValue == [score |-> 0, path |-> Empty]
NoStep == [kind |-> "none", forward_var |-> Empty, feat |-> Empty,
           tags |-> Empty, out |-> Empty, max |-> Empty]

\* the values a recursion's running score vector is drawn from
StepVals == {NEG, 0, 3}
StepVecs == [Tags -> StepVals]

\* gold sequences of valid tag ids, one tag or more
ValidSeqs == UNION {[0..(L - 1) -> Tags] : L \in 1..MaxLen}

\* ------------------------------------------------------------- state
VARIABLES
  tag2idx,      \* self.tag2idx: the START and STOP indices
  transitions,  \* self.transitions
  op,           \* the last operation
  feats_in,     \* the call's feats as passed
  tags_in,      \* the call's tags as passed
  trans_in,     \* self.transitions when the call began
  feats,        \* the caller's feats tensor after the call
  tags,         \* the caller's tags tensor after the call
  raised,       \* the exception the call raised, or "none"
  ret,          \* the value the call returned
  step          \* one evaluation of a recursion's read of self.transitions

vars == <<tag2idx, transitions, op, feats_in, tags_in, trans_in, feats, tags,
          raised, ret, step>>

\* after BiLSTM_CRF(args, ..., tag2idx) with args.enable_crf
Init ==
  /\ tag2idx \in Vocabularies
  /\ transitions = InitTransitions(tag2idx)
  /\ op = "init"
  /\ feats_in = Empty /\ tags_in = Empty
  /\ trans_in = InitTransitions(tag2idx)
  /\ feats = Empty /\ tags = Empty
  /\ raised = "none"
  /\ ret = NoValue
  /\ step = NoStep

\* the caller is between calls
Idle == op \in {"init", "idle"}

\* the training procedure replaces the parameter's values between calls
LoadStateDict(o) ==
  /\ Idle
  /\ o \in RealTags(tag2idx)
  /\ transitions' = Trained(tag2idx, o)
  /\ op' = "idle"
  /\ trans_in' = Trained(tag2idx, o)
  /\ UNCHANGED <<tag2idx, feats_in, tags_in, feats, tags, raised, ret, step>>

\* a call's record, from the frame it ends with
Returns(name, E, tg, fr, value) ==
  /\ op' = name
  /\ feats_in' = E /\ tags_in' = tg /\ trans_in' = transitions
  /\ transitions' = fr.transitions
  /\ feats' = fr.feats /\ tags' = fr.tags
  /\ raised' = fr.raised
  /\ ret' = IF fr.raised = "none" THEN value ELSE NoValue
  /\ UNCHANGED <<tag2idx, step>>

ForwardAlgCall(E) ==
  /\ Idle
  /\ Unbound("size_tag")
  /\ Returns("forward_alg", E, Empty, forward_alg(transitions, E), NoValue)

ScoreSentencesCall(E, tg) ==
  LET fr == score_sentences(tag2idx, transitions, E, tg)
  IN  /\ Idle
      /\ Returns("score_sentences", E, tg, fr,
                 [score |-> fr.score, path |-> Empty])

ViterbiDecodeCall(E) ==
  /\ Idle
  /\ Unbound("tagset_size")
  /\ Returns("viterbi_decode", E, Empty, viterbi_decode(transitions, E), NoValue)

\* the caller takes the outcome and drops the call's tensors
CallerResumes ==
  /\ op \in {"forward_alg", "score_sentences", "viterbi_decode", "step"}
  /\ op' = "idle"
  /\ feats_in' = Empty /\ tags_in' = Empty
  /\ trans_in' = transitions
  /\ feats' = Empty /\ tags' = Empty
  /\ raised' = "none"
  /\ ret' = NoValue
  /\ step' = NoStep
  /\ UNCHANGED <<tag2idx, transitions>>

Next ==
  \/ Idle /\ \E o \in Tags : LoadStateDict(o)
  \/ Idle /\ \E E \in Feats : ForwardAlgCall(E)
  \/ Idle /\ \E E \in Feats : \E tg \in GoldSeqs(Size(E)) : ScoreSentencesCall(E, tg)
  \/ Idle /\ \E E \in Feats : ViterbiDecodeCall(E)
  \/ CallerResumes

Spec == Init /\ [][Next]_vars

\* ------------------------------------- the recursions, one read at a time
Evaluates(st) ==
  /\ Idle
  /\ op' = "step"
  /\ step' = st
  /\ UNCHANGED <<tag2idx, transitions, feats_in, tags_in, trans_in, feats,
                 tags, raised, ret>>

\* forward_alg's loop body down to the row maxima
ForwardTagVar(fv, feat) ==
  LET tag_var == TagVar(fv, transitions, feat)
  IN  Evaluates([kind |-> "forward_tag_var", forward_var |-> fv,
                 feat |-> feat, tags |-> Empty, out |-> tag_var,
                 max |-> MaxDim1(tag_var)])

\* forward_alg's step into STOP
ForwardTerminal(fv) ==
  Evaluates([kind |-> "forward_terminal", forward_var |-> fv, feat |-> Empty,
             tags |-> Empty,
             out |-> ForwardTerminalVar(tag2idx, fv, transitions),
             max |-> Empty])

\* viterbi_decode's loop body: the scores the maximum is taken over
ViterbiNextTagVar(fv) ==
  Evaluates([kind |-> "viterbi_next_tag_var", forward_var |-> fv,
             feat |-> Empty, tags |-> Empty,
             out |-> NextTagVar(fv, transitions), max |-> Empty])

\* viterbi_decode's step into STOP
ViterbiTerminal(fv) ==
  Evaluates([kind |-> "viterbi_terminal", forward_var |-> fv, feat |-> Empty,
             tags |-> Empty,
             out |-> ViterbiTerminalVar(tag2idx, fv, transitions),
             max |-> Empty])

\* score_sentences' transition scores for a gold sequence
ScoreTransGather(tg) ==
  LET E  == [k \in DOMAIN tg |-> [i \in Tags |-> 0]]
      fr == Stmt281(tag2idx, Stmt280(tag2idx, Stmt279(Frame(transitions, E, tg))))
  IN  Evaluates([kind |-> "score_trans_gather", forward_var |-> Empty,
                 feat |-> Empty, tags |-> tg, out |-> TransGather(fr),
                 max |-> Empty])

NextLoopBody ==
  \/ Idle /\ \E o \in Tags : LoadStateDict(o)
  \/ Idle /\ \E fv \in StepVecs : \E feat \in FeatRows : ForwardTagVar(fv, feat)
  \/ Idle /\ \E fv \in StepVecs : ForwardTerminal(fv)
  \/ Idle /\ \E fv \in StepVecs : ViterbiNextTagVar(fv)
  \/ Idle /\ \E fv \in StepVecs : ViterbiTerminal(fv)
  \/ Idle /\ \E tg \in ValidSeqs : ScoreTransGather(tg)
  \/ CallerResumes

SpecLoopBody == Init /\ [][NextLoopBody]_vars

\* ============================================================ claims
Calls == {"forward_alg", "score_sentences", "viterbi_decode"}

\* the START row and the STOP column of A are -10000
Masked(A) ==
  \A i \in Tags : A[tag2idx.START][i] = NEG /\ A[i][tag2idx.STOP] = NEG

\* tag sequences of length L over the real tags
RealSeqs(L) == [0..(L - 1) -> RealTags(tag2idx)]

\* the score of START -> seq -> STOP with A[to][from] and E[position][tag]
RECURSIVE PathScoreTo(_, _, _, _)
PathScoreTo(A, E, seq, n) ==
  IF n = 0 THEN 0
  ELSE PathScoreTo(A, E, seq, n - 1) + E[n - 1][seq[n - 1]]
       + A[seq[n - 1]][IF n = 1 THEN tag2idx.START ELSE seq[n - 2]]

PathScore(A, E, seq) ==
  PathScoreTo(A, E, seq, Size(seq))
  + A[tag2idx.STOP][IF Size(seq) = 0 THEN tag2idx.START ELSE seq[Size(seq) - 1]]

GoldScore(E, seq) == score_sentences(tag2idx, trans_in, E, seq).score

\* C1: with the START row and STOP column at -10000 and L >= 1,
\* viterbi_decode returns a score, and it is the largest score_sentences
\* gives to a length-L sequence of real tags.
C1_ViterbiScoreIsOptimum ==
  (op = "viterbi_decode" /\ Size(feats_in) >= 1 /\ Masked(trans_in)) =>
    /\ raised = "none"
    /\ \A seq \in RealSeqs(Size(feats_in)) : ret.score >= GoldScore(feats_in, seq)
    /\ \E seq \in RealSeqs(Size(feats_in)) : ret.score = GoldScore(feats_in, seq)

\* C2: for L >= 1 viterbi_decode returns a path of exactly L entries, none
\* of them START or STOP.
C2_PathLengthAndNoSentinel ==
  (op = "viterbi_decode" /\ Size(feats_in) >= 1) =>
    /\ raised = "none"
    /\ Size(ret.path) = Size(feats_in)
    /\ \A k \in DOMAIN ret.path : ret.path[k] \notin {tag2idx.START, tag2idx.STOP}

\* C3: for L >= 1 forward_alg returns a value, and it is at least
\* score_sentences' score of every gold sequence of real tags.
C3_PartitionDominatesGold ==
  (op = "forward_alg" /\ Size(feats_in) >= 1) =>
    /\ raised = "none"
    /\ \A seq \in RealSeqs(Size(feats_in)) : ret.score >= GoldScore(feats_in, seq)

\* C4: for L >= 1 viterbi_decode's backpointer walk runs to its end at START:
\* the call raises nothing (the sanity assertion included) and returns the
\* walk without its START entry.
C4_WalkEndsAtStart ==
  (op = "viterbi_decode" /\ Size(feats_in) >= 1) =>
    /\ raised \notin {"AssertionError", "AttributeError", "IndexError"}
    /\ DOMAIN ret.path = 0..(Size(feats_in) - 1)

\* C5 as stated: each of the three operations signals an error for L = 0.
C5_EmptyRejected ==
  (op \in Calls /\ Size(feats_in) = 0) => raised # "none"

\* C5 as amended: for L = 0 forward_alg and viterbi_decode raise and return
\* nothing, and score_sentences raises nothing: it returns
\* transitions[STOP][START].
C5_EmptyScoredNotRejected ==
  (op \in Calls /\ Size(feats_in) = 0) =>
    /\ op \in {"forward_alg", "viterbi_decode"} => (raised # "none" /\ ret = NoValue)
    /\ op = "score_sentences" =>
         (raised = "none" /\ ret.score = trans_in[tag2idx.STOP][tag2idx.START])

C5_Witness ==
  op = "score_sentences" /\ Size(feats_in) = 0 /\ raised = "none"

\* C6 as stated: a gold sequence with a tag id outside [0, T) is rejected
\* with an index error.
C6_OutsideRangeRejected ==
  (op = "score_sentences" /\ \E k \in DOMAIN tags_in : tags_in[k] \notin Tags) =>
    raised = "IndexError"

\* C6 as amended: score_sentences raises an index error, and returns no
\* score, exactly when some tag id is >= T or < -T; an id in [-T, -1] is
\* read as id + T, and the score of the sequence so rewritten is returned.
C6_RejectedBeyondWrapRange ==
  op = "score_sentences" =>
    LET beyond == \E k \in DOMAIN tags_in : tags_in[k] >= NTag \/ tags_in[k] < -NTag
        read   == [k \in DOMAIN tags_in |->
                     IF tags_in[k] < 0 THEN tags_in[k] + NTag ELSE tags_in[k]]
    IN  /\ beyond => (raised = "IndexError" /\ ret = NoValue)
        /\ ~beyond => (raised = "none" /\ ret.score = PathScore(trans_in, feats_in, read))

C6_Witness ==
  /\ op = "score_sentences" /\ raised = "none"
  /\ \E k \in DOMAIN tags_in : tags_in[k] = -1
  /\ ret.score # 0

\* C7: after a call of any of the three operations the transition matrix,
\* the caller's emission matrix and the caller's gold sequence are what
\* they were when the call began.
C7_InputsUnchanged ==
  op \in Calls =>
    /\ transitions = trans_in
    /\ feats = feats_in
    /\ tags = tags_in

C7_Witness ==
  /\ op = "score_sentences" /\ raised = "none"
  /\ Size(tags_in) = MaxLen
  /\ trans_in # InitTransitions(tag2idx)

\* C8: START=0, O=1, STOP=2, L=2, the matrix zero but for A[STOP][O] = 5,
\* A[O][START] = 5 and the -10000 entries, O scored 1 then 2:
\* viterbi_decode returns the path [O, O] with score 13.
C8_Scenario ==
  (/\ op = "viterbi_decode"
   /\ tag2idx = [START |-> 0, STOP |-> 2]
   /\ trans_in = Trained(tag2idx, 1)
   /\ feats_in = [t \in 0..1 |-> [i \in 0..2 |-> IF i = 1 THEN t + 1 ELSE 0]]) =>
    /\ raised = "none"
    /\ ret = [score |-> 13, path |-> [t \in 0..1 |-> 1]]

C10_ScoreMatchesPath ==
  (op = "viterbi_decode" /\ Size(feats_in) >= 1) =>
    /\ raised = "none"
    /\ DOMAIN ret.path = DOMAIN feats_in
    /\ GoldScore(feats_in, ret.path) = ret.score

====
